---- MODULE Spec2Model ----
(***************************************************************************)
(* TriggerClient (packages/trigger-sdk/src/triggerClient.ts): the six      *)
(* registries filled by the attach* calls, the request dispatcher          *)
(* handleRequest, the job executor and the HTTP source router.             *)
(*                                                                         *)
(* A registry is a JavaScript object literal `{}` used as a map: reading   *)
(* reg[k] finds the own property k, else the member of that name inherited *)
(* from Object.prototype, else undefined.  Own properties are the DOMAIN   *)
(* of the TLA+ function; the inherited members are ObjectPrototypeKeys.    *)
(***************************************************************************)
EXTENDS Integers, Sequences, FiniteSets, TLC

VARIABLES
    apiKeyOption,                   \* #options.apiKey
    envApiKey,                      \* process.env.TRIGGER_API_KEY
    registeredJobs,                 \* #registeredJobs
    registeredSources,              \* #registeredSources
    registeredHttpSourceHandlers,   \* #registeredHttpSourceHandlers
    registeredDynamicTriggers,      \* #registeredDynamicTriggers
    jobMetadataByDynamicTriggers,   \* #jobMetadataByDynamicTriggers
    registeredSchedules,            \* #registeredSchedules
    request,                        \* the request of the last handleRequest call
    response,                       \* what that call returned (or that it threw)
    observed,                       \* what that call read and which collaborators it invoked
    attachLog,                      \* history of the attach* calls made so far
    run,                            \* the backend's view of one resumable run
    inflight,                       \* the handleRequest invocations in progress at once
    construction                    \* new TriggerClient(name, options): options, process.env, outcome

vars == <<apiKeyOption, envApiKey, registeredJobs, registeredSources,
          registeredHttpSourceHandlers, registeredDynamicTriggers,
          jobMetadataByDynamicTriggers, registeredSchedules,
          request, response, observed, attachLog, run, inflight, construction>>

registries == <<registeredJobs, registeredSources, registeredHttpSourceHandlers,
                registeredDynamicTriggers, jobMetadataByDynamicTriggers,
                registeredSchedules>>

-----------------------------------------------------------------------------
(* Bounds of the model *)

\* number of attach* calls made during setup
MaxAttach == 2

\* number of attach* calls in the registration-only specification
MaxCalls == 3

\* number of io tasks a job performs
MaxTasks == 2

\* number of handleRequest invocations in progress at once
MaxInFlight == 2

-----------------------------------------------------------------------------
(* Values *)

\* JavaScript undefined, for an optional string
Undefined == "<undefined>"

\* Members every `{}` inherits from Object.prototype (one stands for all of them)
ObjectPrototypeKeys == {"constructor"}

TaskNames == <<"t1", "t2", "t3", "t4">>

EmptyRegistry == [k \in {} |-> 0]

\* reg[k] = v
Put(reg, k, v) == [x \in DOMAIN reg \cup {k} |-> IF x = k THEN v ELSE reg[x]]

HasOwn(reg, k) == k \in DOMAIN reg

\* reg[k] is a member inherited from Object.prototype (truthy, not nullish)
Inherited(reg, k) == ~HasOwn(reg, k) /\ k \in ObjectPrototypeKeys

\* reg[k] is undefined
Missing(reg, k) == ~HasOwn(reg, k) /\ k \notin ObjectPrototypeKeys

Range(s) == {s[i] : i \in 1..Len(s)}

-----------------------------------------------------------------------------
(* Values a run function or a payload parser raises *)

NoError == [resume |-> FALSE, task |-> Undefined, message |-> Undefined, stack |-> Undefined]

\* new ResumeWithTask(task)
ResumeWithTask(t) == [resume |-> TRUE, task |-> t, message |-> Undefined, stack |-> Undefined]

\* a ResumeWithTask that also carries message and stack, as an Error subclass would
ResumeWithTaskError(t) == [resume |-> TRUE, task |-> t, message |-> "resume", stack |-> "at io"]

ErrorValue(m, s) == [resume |-> FALSE, task |-> Undefined, message |-> m, stack |-> s]

ParseError == ErrorValue("invalid payload", "at parsePayload")

TypeError == ErrorValue("is not a function", "at TriggerClient")

\* what the backend client raises when a call to it fails
ApiError == ErrorValue("fetch failed", "at ApiClient")

-----------------------------------------------------------------------------
(* External sources, dynamic triggers and jobs the application declares *)

Source(name, version, integrationId, usesLocalAuth, updates, result) ==
    [name |-> name, channel |-> "HTTP", version |-> version,
     integrationId |-> integrationId, usesLocalAuth |-> usesLocalAuth,
     updates |-> updates, result |-> result]

\* handle returns nothing; register returns no update
SourceQuiet == Source("quiet", "1", "int1", FALSE, FALSE, "nothing")

\* handle returns events and its own response (status 500); register returns updates
SourceLoud == Source("loud", "2", "int2", TRUE, TRUE, "eventsAndResponse")

\* handle returns events and no response
SourcePlain == Source("plain", "3", "int3", FALSE, TRUE, "events")

DynamicTrigger(id, source) == [id |-> id, source |-> source]

DynamicTriggers == {DynamicTrigger("a", SourceLoud), DynamicTrigger("constructor", SourceQuiet)}

\* new EventTrigger({event}); elements is what event.runElements yields (none declared: <<>>)
EventTrigger == [kind |-> "event", id |-> Undefined, elements |-> <<>>]

EventTriggerWithElements == [kind |-> "event", id |-> Undefined, elements |-> <<"el1", "el2">>]

DynamicTriggerRef(id) == [kind |-> "dynamic", id |-> id, elements |-> <<>>]

RunReturn(v) == [kind |-> "return", value |-> v, err |-> NoError, n |-> 0, source |-> SourceQuiet]

RunThrow(e) == [kind |-> "throw", value |-> Undefined, err |-> e, n |-> 0, source |-> SourceQuiet]

\* performs io tasks TaskNames[1..n] in order, then returns "done"
RunTasks(n) == [kind |-> "tasks", value |-> "done", err |-> NoError, n |-> n, source |-> SourceQuiet]

\* the run function of a synthesized registration job: source.register, then io.updateSource
RunRegister(source) == [kind |-> "register", value |-> "updated", err |-> NoError, n |-> 0, source |-> source]

Job(id, version, enabled, internal, trigger, strict, runFn) ==
    [id |-> id, version |-> version, enabled |-> enabled, internal |-> internal,
     trigger |-> trigger, strict |-> strict, run |-> runFn]

JobReturn == Job("a", "1", TRUE, FALSE, EventTriggerWithElements, TRUE, RunReturn("V"))

JobReturnNothing == Job("b", "1", TRUE, FALSE, EventTrigger, FALSE, RunReturn(Undefined))

JobSuspend == Job("b", "2", TRUE, FALSE, EventTrigger, FALSE, RunThrow(ResumeWithTask("t1")))

JobSuspendError == Job("a", "2", TRUE, FALSE, EventTrigger, FALSE, RunThrow(ResumeWithTaskError("t2")))

JobFail == Job("constructor", "1", TRUE, FALSE, EventTrigger, FALSE, RunThrow(ErrorValue("boom", "at run")))

JobFailMessage == Job("a", "3", TRUE, FALSE, EventTrigger, FALSE, RunThrow(ErrorValue("boom", Undefined)))

JobFailUnknown == Job("b", "3", TRUE, FALSE, EventTrigger, FALSE, RunThrow(ErrorValue(Undefined, Undefined)))

JobDisabled == Job("b", "0", FALSE, FALSE, EventTrigger, FALSE, RunReturn("never"))

JobDynamic == Job("b", "4", TRUE, FALSE, DynamicTriggerRef("a"), FALSE, RunReturn("D"))

JobDynamicProto == Job("a", "4", TRUE, FALSE, DynamicTriggerRef("constructor"), FALSE, RunReturn("D"))

JobTasks(n) == Job("a", "5", TRUE, FALSE, EventTrigger, FALSE, RunTasks(n))

TaskJobs == {JobTasks(n) : n \in 0..MaxTasks}

JobRef(job) == [id |-> job.id, version |-> job.version]

-----------------------------------------------------------------------------
(* The client's registries as one value, and the attach* operations on it *)

Client ==
    [registeredJobs |-> registeredJobs,
     registeredSources |-> registeredSources,
     registeredHttpSourceHandlers |-> registeredHttpSourceHandlers,
     registeredDynamicTriggers |-> registeredDynamicTriggers,
     jobMetadataByDynamicTriggers |-> jobMetadataByDynamicTriggers,
     registeredSchedules |-> registeredSchedules]

\* an attach* call that returned
Done(c, calls) == [client |-> c, thrown |-> FALSE, calls |-> calls]

\* an attach* call that raised, with what it had written before
Raised(c, calls) == [client |-> c, thrown |-> TRUE, calls |-> calls]

\* const jobs = this.#jobMetadataByDynamicTriggers[trigger.id] ?? []; jobs.push(..)
attachJobToDynamicTrigger(c, job, trigger) ==
    LET reg == c.jobMetadataByDynamicTriggers
    IN  IF Inherited(reg, trigger.id)
        THEN Raised(c, <<>>)
        ELSE LET jobs == IF HasOwn(reg, trigger.id) THEN reg[trigger.id] ELSE <<>>
             IN  Done([c EXCEPT !.jobMetadataByDynamicTriggers =
                                    Put(reg, trigger.id, Append(jobs, JobRef(job)))], <<>>)

\* job.trigger.attachToJob(client, job): an EventTrigger attaches nothing, a
\* DynamicTrigger adds the job to its own job-reference list
attachToJob(c, job) ==
    IF job.trigger.kind = "dynamic"
    THEN LET r == attachJobToDynamicTrigger(c, job, [id |-> job.trigger.id])
         IN  [r EXCEPT !.calls = <<"attachToJob">> \o r.calls]
    ELSE Done(c, <<"attachToJob">>)

\* (mutant) registers a job whatever its enabled flag is
attachDisabledToo(c, job) ==
    attachToJob([c EXCEPT !.registeredJobs = Put(c.registeredJobs, job.id, job)], job)

attach(c, job) ==
    IF ~job.enabled
    THEN Done(c, <<>>)
    ELSE attachToJob([c EXCEPT !.registeredJobs = Put(c.registeredJobs, job.id, job)], job)

\* new Job(client, options): the constructor attaches the job to the client
NewJob(c, job) == attach(c, job)

RegisterDynamicTriggerJob(trigger) ==
    Job("register-dynamic-trigger-" \o trigger.id, trigger.source.version, TRUE, TRUE,
        EventTrigger, FALSE, RunRegister(trigger.source))

attachDynamicTrigger(c, trigger) ==
    NewJob([c EXCEPT !.registeredDynamicTriggers =
                         Put(c.registeredDynamicTriggers, trigger.id, trigger)],
           RegisterDynamicTriggerJob(trigger))

RegisterSourceJob(options) ==
    Job(options.key, options.source.version, TRUE, TRUE,
        EventTrigger, FALSE, RunRegister(options.source))

SourceMetadata(options) ==
    [channel |-> options.source.channel,
     key |-> options.key,
     params |-> options.params,
     events |-> <<>>,
     clientId |-> IF ~options.source.usesLocalAuth
                  THEN options.source.integrationId ELSE Undefined]

\* Array.from(new Set([...events, name]))
MergeEvent(events, name) ==
    IF name \in Range(events) THEN events ELSE Append(events, name)

\* (mutant) rebuilds the metadata of the key from the options of every call
attachSourceRefreshing(c, options) ==
    LET c1 == [c EXCEPT !.registeredHttpSourceHandlers =
                            Put(c.registeredHttpSourceHandlers, options.key, options.source)]
        reg == c.registeredSources
    IN  IF Inherited(reg, options.key)
        THEN Raised(c1, <<>>)
        ELSE LET events == IF HasOwn(reg, options.key) THEN reg[options.key].events ELSE <<>>
                 merged == [SourceMetadata(options) EXCEPT
                               !.events = MergeEvent(events, options.event)]
             IN  NewJob([c1 EXCEPT !.registeredSources = Put(reg, options.key, merged)],
                        RegisterSourceJob(options))

attachSource(c, options) ==
    LET c1 == [c EXCEPT !.registeredHttpSourceHandlers =
                            Put(c.registeredHttpSourceHandlers, options.key, options.source)]
        reg == c.registeredSources
    IN  IF Inherited(reg, options.key)
        THEN \* registeredSource.events is undefined: spreading it raises
             Raised(c1, <<>>)
        ELSE LET registeredSource == IF HasOwn(reg, options.key)
                                     THEN reg[options.key] ELSE SourceMetadata(options)
                 merged == [registeredSource EXCEPT
                               !.events = MergeEvent(registeredSource.events, options.event)]
             IN  NewJob([c1 EXCEPT !.registeredSources = Put(reg, options.key, merged)],
                        RegisterSourceJob(options))

attachDynamicSchedule(c, key, job) ==
    LET reg == c.registeredSchedules
    IN  IF Inherited(reg, key)
        THEN Raised(c, <<>>)
        ELSE LET jobs == IF HasOwn(reg, key) THEN reg[key] ELSE <<>>
             IN  Done([c EXCEPT !.registeredSchedules = Put(reg, key, Append(jobs, JobRef(job)))],
                      <<>>)

-----------------------------------------------------------------------------
(* Requests *)

Body(shape, id, runId, payload, tasks) ==
    [shape |-> shape, id |-> id, runId |-> runId, payload |-> payload, tasks |-> tasks]

\* a body no schema accepts
Garbage == Body("garbage", Undefined, Undefined, Undefined, <<>>)

\* {id, params}
TriggerBody(id) == Body("trigger", id, Undefined, "p1", <<>>)

\* {event: {payload, ..}, job: {id, ..}, run: {id, ..}, tasks, connections, ..}
RunBody(id, runId, payload, tasks) == Body("run", id, runId, payload, tasks)

PreprocessBody(id, payload) == Body("preprocess", id, "r0", payload, <<>>)

\* the x-ts-* headers of a request; valid: they satisfy HttpSourceRequestHeadersSchema
TsHeaders(valid, key, dynamicId) == [valid |-> valid, key |-> key, dynamicId |-> dynamicId]

NoTsHeaders == TsHeaders(FALSE, Undefined, Undefined)

Request(method, apiKey, action, jobId, body, ts) ==
    [method |-> method, apiKey |-> apiKey, action |-> action, jobId |-> jobId,
     body |-> body, ts |-> ts]

NoRequest == Request("NONE", Undefined, Undefined, Undefined, Garbage, NoTsHeaders)

PostActions == {"INITIALIZE", "INITIALIZE_TRIGGER", "EXECUTE_JOB", "PREPROCESS_RUN",
                "DELIVER_HTTP_SOURCE_REQUEST"}

Actions == PostActions \cup {"PING", Undefined}

InitializeTriggerBodySchema(body) == body.shape = "trigger"

RunJobBodySchema(body) == body.shape = "run"

PreprocessRunBodySchema(body) == body.shape = "preprocess"

HttpSourceRequestHeadersSchema(ts) == ts.valid

\* ErrorWithStackSchema.safeParse(error).success
ErrorWithStackSchema(error) == error.message # Undefined /\ error.stack # Undefined

\* ErrorWithMessage.safeParse(error).success
ErrorWithMessage(error) == error.message # Undefined

-----------------------------------------------------------------------------
(* Authorization *)

localApiKey == IF apiKeyOption # Undefined THEN apiKeyOption ELSE envApiKey

\* (mutant) accepts any request when no key is configured
authorizedWhenUnconfigured(apiKey) ==
    IF localApiKey \in {Undefined, ""} THEN TRUE ELSE apiKey = localApiKey

authorized(apiKey) ==
    IF localApiKey \in {Undefined, ""} THEN FALSE ELSE apiKey = localApiKey

-----------------------------------------------------------------------------
(* The job executor *)

\* index of the first of the job's n tasks with no record in the cache, 0 if none
FirstUncached(n, cache) ==
    LET open == {i \in 1..n : TaskNames[i] \notin Range(cache)}
    IN  IF open = {} THEN 0 ELSE CHOOSE i \in open : \A j \in open : i <= j

TryResult(raised, value, err, calls, effects) ==
    [raised |-> raised, value |-> value, err |-> err, calls |-> calls, effects |-> effects]

\* io.runTask for the tasks of a job, against the cache the IO object was seeded
\* with: a cached task is replayed, the first task not in the cache is performed
\* and the run is suspended on it
IoRunTasks(names, n, cache, value, calls) ==
    LET i == FirstUncached(n, cache)
    IN  IF i = 0
        THEN TryResult(FALSE, value, NoError, calls, <<>>)
        ELSE TryResult(TRUE, Undefined, ResumeWithTask(names[i]), calls, <<names[i]>>)

\* job.options.run(parsePayload(body.event.payload ?? {}), ioWithConnections, context)
RunFunction(job, cachedTasks) ==
    LET fn == job.run
        calls == <<"parsePayload", "run">>
    IN  CASE fn.kind = "return" -> TryResult(FALSE, fn.value, NoError, calls, <<>>)
          [] fn.kind = "throw" -> TryResult(TRUE, Undefined, fn.err, calls, <<>>)
          [] fn.kind = "tasks" -> IoRunTasks(TaskNames, fn.n, cachedTasks, fn.value, calls)
          [] fn.kind = "register" ->
                IF ~fn.source.updates
                THEN TryResult(FALSE, Undefined, NoError, calls \o <<"register">>, <<>>)
                ELSE IF "update-source" \in Range(cachedTasks)
                THEN TryResult(FALSE, fn.value, NoError, calls \o <<"register">>, <<>>)
                ELSE TryResult(TRUE, Undefined, ResumeWithTask("update-source"),
                               calls \o <<"register">>, <<"update-source">>)

\* the body of the try block of #executeJob
Try(body, job, cachedTasks) ==
    IF job.strict /\ body.payload = "malformed"
    THEN TryResult(TRUE, Undefined, ParseError, <<"parsePayload">>, <<>>)
    ELSE RunFunction(job, cachedTasks)

Outcome(completed, output, task, hasError, message, stack, t) ==
    [completed |-> completed, output |-> output, task |-> task, hasError |-> hasError,
     error |-> [message |-> message, stack |-> stack],
     calls |-> <<"IO">> \o t.calls, effects |-> t.effects]

\* (mutant) tries the error shapes before it looks for the suspension signal
ClassifyShapeFirst(t) ==
    IF ~t.raised
    THEN Outcome(TRUE, t.value, Undefined, FALSE, Undefined, Undefined, t)
    ELSE IF ErrorWithStackSchema(t.err)
    THEN Outcome(TRUE, Undefined, Undefined, TRUE, t.err.message, t.err.stack, t)
    ELSE IF ErrorWithMessage(t.err)
    THEN Outcome(TRUE, Undefined, Undefined, TRUE, t.err.message, Undefined, t)
    ELSE IF t.err.resume
    THEN Outcome(FALSE, Undefined, t.err.task, FALSE, Undefined, Undefined, t)
    ELSE Outcome(TRUE, Undefined, Undefined, TRUE, "Unknown error", Undefined, t)

\* (mutant) tries the message-only shape before the shape with a stack
ClassifyMessageFirst(t) ==
    IF ~t.raised
    THEN Outcome(TRUE, t.value, Undefined, FALSE, Undefined, Undefined, t)
    ELSE IF t.err.resume
    THEN Outcome(FALSE, Undefined, t.err.task, FALSE, Undefined, Undefined, t)
    ELSE IF ErrorWithMessage(t.err)
    THEN Outcome(TRUE, Undefined, Undefined, TRUE, t.err.message, Undefined, t)
    ELSE IF ErrorWithStackSchema(t.err)
    THEN Outcome(TRUE, Undefined, Undefined, TRUE, t.err.message, t.err.stack, t)
    ELSE Outcome(TRUE, Undefined, Undefined, TRUE, "Unknown error", Undefined, t)

Classify(t) ==
    IF ~t.raised
    THEN Outcome(TRUE, t.value, Undefined, FALSE, Undefined, Undefined, t)
    ELSE IF t.err.resume
    THEN Outcome(FALSE, Undefined, t.err.task, FALSE, Undefined, Undefined, t)
    ELSE IF ErrorWithStackSchema(t.err)
    THEN Outcome(TRUE, Undefined, Undefined, TRUE, t.err.message, t.err.stack, t)
    ELSE IF ErrorWithMessage(t.err)
    THEN Outcome(TRUE, Undefined, Undefined, TRUE, t.err.message, Undefined, t)
    ELSE Outcome(TRUE, Undefined, Undefined, TRUE, "Unknown error", Undefined, t)

\* (mutant) seeds the IO object with an empty task cache
executeJobForgetful(body, job) == Classify(Try(body, job, <<>>))

executeJob(body, job) == Classify(Try(body, job, body.tasks))

\* #preprocessRun: parsePayload is not guarded, a parse error leaves the call
preprocessRun(body, job) ==
    IF job.strict /\ body.payload = "malformed"
    THEN [raised |-> TRUE, abort |-> FALSE, elements |-> <<>>, calls |-> <<"parsePayload">>]
    ELSE [raised |-> FALSE, abort |-> FALSE, elements |-> job.trigger.elements,
          calls |-> <<"parsePayload">>]

-----------------------------------------------------------------------------
(* The HTTP source router *)

Acknowledgement == [status |-> 200, body |-> [ok |-> TRUE]]

Routed(events, eventsDefined, resp, reads, calls) ==
    [thrown |-> FALSE, events |-> events, eventsDefined |-> eventsDefined,
     response |-> resp, reads |-> reads, calls |-> calls]

\* source.handle(source, request, logger), by the kind of source
Handle(src, reads) ==
    CASE src.result = "nothing" -> Routed(<<>>, TRUE, Acknowledgement, reads, <<"handle">>)
      [] src.result = "events" ->
            Routed(<<"ev:" \o src.name>>, TRUE, Acknowledgement, reads, <<"handle">>)
      [] src.result = "eventsAndResponse" ->
            Routed(<<"ev:" \o src.name>>, TRUE, [status |-> 500, body |-> [ok |-> FALSE]],
                   reads, <<"handle">>)

handleHttpSourceRequest(c, source) ==
    IF source.dynamicId \notin {Undefined, ""}
    THEN LET reg == c.registeredDynamicTriggers
             reads == {"registeredDynamicTriggers"}
         IN  IF Missing(reg, source.dynamicId)
             THEN Routed(<<>>, TRUE, Acknowledgement, reads, <<>>)
             ELSE IF Inherited(reg, source.dynamicId)
             THEN \* dynamicTrigger.source is undefined: reading .handle raises
                  [Routed(<<>>, TRUE, Acknowledgement, reads, <<>>) EXCEPT !.thrown = TRUE]
             ELSE Handle(reg[source.dynamicId].source, reads)
    ELSE LET reg == c.registeredHttpSourceHandlers
             reads == {"registeredHttpSourceHandlers"}
         IN  IF Missing(reg, source.key)
             THEN Routed(<<>>, TRUE, Acknowledgement, reads, <<>>)
             ELSE IF Inherited(reg, source.key)
             THEN \* the inherited function is called as the handler and returns
                  \* an object with neither events nor response
                  Routed(<<>>, FALSE, Acknowledgement, reads, <<>>)
             ELSE Handle(reg[source.key], reads)

-----------------------------------------------------------------------------
(* The request dispatcher *)

MessageBody(m) == [message |-> m]

Returned(status, body, reads, calls, effects) ==
    [thrown |-> FALSE, status |-> status, body |-> body,
     reads |-> reads, calls |-> calls, effects |-> effects]

\* handleRequest rejects: the caller gets no response
Rejected(err, reads, calls, effects) ==
    [thrown |-> TRUE, status |-> 0, body |-> [message |-> err.message, stack |-> err.stack],
     reads |-> reads, calls |-> calls, effects |-> effects]

\* job.toJSON()
JobJSON(job) ==
    [id |-> job.id, version |-> job.version, internal |-> job.internal,
     triggerKind |-> job.trigger.kind]

\* GetEndpointDataResponse
EndpointData(c) ==
    [jobs |-> {JobJSON(c.registeredJobs[k]) : k \in DOMAIN c.registeredJobs},
     sources |-> {c.registeredSources[k] : k \in DOMAIN c.registeredSources},
     dynamicTriggers |->
        {[id |-> k,
          jobs |-> IF HasOwn(c.jobMetadataByDynamicTriggers, k)
                   THEN c.jobMetadataByDynamicTriggers[k] ELSE <<>>,
          jobsIsArray |-> ~Inherited(c.jobMetadataByDynamicTriggers, k)]
         : k \in DOMAIN c.registeredDynamicTriggers},
     dynamicSchedules |->
        {[id |-> k, jobs |-> c.registeredSchedules[k]] : k \in DOMAIN c.registeredSchedules}]

AllRegistries ==
    {"registeredJobs", "registeredSources", "registeredDynamicTriggers",
     "jobMetadataByDynamicTriggers", "registeredSchedules"}

\* (mutant) looks the job id header up before it looks at the action
handleGetJobIdFirst(c, req) ==
    IF req.jobId \notin {Undefined, ""}
    THEN IF Missing(c.registeredJobs, req.jobId)
         THEN Returned(404, MessageBody("Job not found"), {"registeredJobs"}, <<>>, <<>>)
         ELSE IF Inherited(c.registeredJobs, req.jobId)
         THEN Rejected(TypeError, {"registeredJobs"}, <<>>, <<>>)
         ELSE Returned(200, JobJSON(c.registeredJobs[req.jobId]), {"registeredJobs"},
                       <<"toJSON">>, <<>>)
    ELSE IF req.action = "PING"
    THEN Returned(200, MessageBody("PONG"), {}, <<>>, <<>>)
    ELSE Returned(200, EndpointData(c), AllRegistries, <<"toJSON">>, <<>>)

handleGet(c, req) ==
    IF req.action = "PING"
    THEN Returned(200, MessageBody("PONG"), {}, <<>>, <<>>)
    ELSE IF req.jobId \notin {Undefined, ""}
    THEN IF Missing(c.registeredJobs, req.jobId)
         THEN Returned(404, MessageBody("Job not found"), {"registeredJobs"}, <<>>, <<>>)
         ELSE IF Inherited(c.registeredJobs, req.jobId)
         THEN \* the inherited member has no toJSON
              Rejected(TypeError, {"registeredJobs"}, <<>>, <<>>)
         ELSE Returned(200, JobJSON(c.registeredJobs[req.jobId]), {"registeredJobs"},
                       <<"toJSON">>, <<>>)
    ELSE Returned(200, EndpointData(c), AllRegistries, <<"toJSON">>, <<>>)

\* case "INITIALIZE": await this.listen()
initialize(c, req, apiOk) ==
    IF apiOk
    THEN Returned(200, MessageBody("Initialized"), {}, <<"registerEndpoint">>, <<>>)
    ELSE Rejected(ApiError, {}, <<"registerEndpoint">>, <<>>)

initializeTrigger(c, req) ==
    LET reg == c.registeredDynamicTriggers
        reads == {"registeredDynamicTriggers"}
    IN  IF ~InitializeTriggerBodySchema(req.body)
        THEN Returned(400, MessageBody("Invalid trigger body"), {}, <<>>, <<>>)
        ELSE IF Missing(reg, req.body.id)
        THEN Returned(404, MessageBody("Dynamic trigger not found"), reads, <<>>, <<>>)
        ELSE IF Inherited(reg, req.body.id)
        THEN \* the inherited member has no registeredTriggerForParams
             Rejected(TypeError, reads, <<>>, <<>>)
        ELSE Returned(200, [registeredTrigger |-> reg[req.body.id].id, params |-> req.body.payload],
                      reads, <<"registeredTriggerForParams">>, <<>>)

ExecutionBody(results, executionId) ==
    [completed |-> results.completed, output |-> results.output,
     executionId |-> executionId, task |-> results.task]

\* (mutant) looks the job up before it validates the body
executeJobLookupFirst(c, req) ==
    LET reg == c.registeredJobs
        reads == {"registeredJobs"}
    IN  IF Missing(reg, req.body.id)
        THEN Returned(404, MessageBody("Job not found"), reads, <<>>, <<>>)
        ELSE IF ~RunJobBodySchema(req.body)
        THEN Returned(400, MessageBody("Invalid execution"), reads, <<>>, <<>>)
        ELSE IF Inherited(reg, req.body.id)
        THEN Rejected(TypeError, reads, <<>>, <<>>)
        ELSE LET results == executeJob(req.body, reg[req.body.id])
             IN  IF results.hasError
                 THEN Returned(500, results.error, reads, results.calls, results.effects)
                 ELSE Returned(200, ExecutionBody(results, req.body.runId), reads,
                               results.calls, results.effects)

\* (mutant) reports the job id as the execution id
executeJobWrongId(c, req) ==
    LET reg == c.registeredJobs
        reads == {"registeredJobs"}
    IN  IF ~RunJobBodySchema(req.body)
        THEN Returned(400, MessageBody("Invalid execution"), {}, <<>>, <<>>)
        ELSE IF Missing(reg, req.body.id)
        THEN Returned(404, MessageBody("Job not found"), reads, <<>>, <<>>)
        ELSE IF Inherited(reg, req.body.id)
        THEN Rejected(TypeError, reads, <<>>, <<>>)
        ELSE LET results == executeJob(req.body, reg[req.body.id])
             IN  IF results.hasError
                 THEN Returned(500, results.error, reads, results.calls, results.effects)
                 ELSE Returned(200, ExecutionBody(results, req.body.id), reads,
                               results.calls, results.effects)

\* (mutant) answers 200 whatever the executor reports
executeJobAlways200(c, req) ==
    LET reg == c.registeredJobs
        reads == {"registeredJobs"}
    IN  IF ~RunJobBodySchema(req.body)
        THEN Returned(400, MessageBody("Invalid execution"), {}, <<>>, <<>>)
        ELSE IF Missing(reg, req.body.id)
        THEN Returned(404, MessageBody("Job not found"), reads, <<>>, <<>>)
        ELSE IF Inherited(reg, req.body.id)
        THEN Rejected(TypeError, reads, <<>>, <<>>)
        ELSE LET results == executeJob(req.body, reg[req.body.id])
             IN  Returned(200, ExecutionBody(results, req.body.runId), reads,
                          results.calls, results.effects)

\* case "EXECUTE_JOB"
executeJobAction(c, req) ==
    LET reg == c.registeredJobs
        reads == {"registeredJobs"}
    IN  IF ~RunJobBodySchema(req.body)
        THEN Returned(400, MessageBody("Invalid execution"), {}, <<>>, <<>>)
        ELSE IF Missing(reg, req.body.id)
        THEN Returned(404, MessageBody("Job not found"), reads, <<>>, <<>>)
        ELSE IF Inherited(reg, req.body.id)
        THEN \* #executeJob logs job.toJSON() first: the inherited member has none
             Rejected(TypeError, reads, <<>>, <<>>)
        ELSE LET results == executeJob(req.body, reg[req.body.id])
             IN  IF results.hasError
                 THEN Returned(500, results.error, reads, results.calls, results.effects)
                 ELSE Returned(200, ExecutionBody(results, req.body.runId), reads,
                               results.calls, results.effects)

\* case "PREPROCESS_RUN"
preprocessRunAction(c, req) ==
    LET reg == c.registeredJobs
        reads == {"registeredJobs"}
    IN  IF ~PreprocessRunBodySchema(req.body)
        THEN Returned(400, MessageBody("Invalid body"), {}, <<>>, <<>>)
        ELSE IF Missing(reg, req.body.id)
        THEN Returned(404, MessageBody("Job not found"), reads, <<>>, <<>>)
        ELSE IF Inherited(reg, req.body.id)
        THEN \* job.trigger is undefined: reading .event raises
             Rejected(TypeError, reads, <<>>, <<>>)
        ELSE LET results == preprocessRun(req.body, reg[req.body.id])
             IN  IF results.raised
                 THEN Rejected(ParseError, reads, results.calls, <<>>)
                 ELSE Returned(200, [abort |-> results.abort, elements |-> results.elements],
                               reads, results.calls, <<>>)

\* case "DELIVER_HTTP_SOURCE_REQUEST"
deliverHttpSourceRequest(c, req) ==
    IF ~HttpSourceRequestHeadersSchema(req.ts)
    THEN Returned(400, MessageBody("Invalid headers"), {}, <<>>, <<>>)
    ELSE LET r == handleHttpSourceRequest(c, [key |-> req.ts.key, dynamicId |-> req.ts.dynamicId])
         IN  IF r.thrown
             THEN Rejected(TypeError, r.reads, r.calls, <<>>)
             ELSE Returned(200, [events |-> r.events, eventsDefined |-> r.eventsDefined,
                                 response |-> r.response],
                           r.reads, r.calls, <<>>)

MethodNotAllowed == Returned(405, MessageBody("Method not allowed"), {}, <<>>, <<>>)

\* (mutant) answers a POST that carries the PING action as a GET would
handlePostPingToo(c, req, apiOk) ==
    CASE req.action = "INITIALIZE" -> initialize(c, req, apiOk)
      [] req.action = "INITIALIZE_TRIGGER" -> initializeTrigger(c, req)
      [] req.action = "EXECUTE_JOB" -> executeJobAction(c, req)
      [] req.action = "PREPROCESS_RUN" -> preprocessRunAction(c, req)
      [] req.action = "DELIVER_HTTP_SOURCE_REQUEST" -> deliverHttpSourceRequest(c, req)
      [] req.action = "PING" -> Returned(200, MessageBody("PONG"), {}, <<>>, <<>>)
      [] OTHER -> MethodNotAllowed

handlePost(c, req, apiOk) ==
    CASE req.action = "INITIALIZE" -> initialize(c, req, apiOk)
      [] req.action = "INITIALIZE_TRIGGER" -> initializeTrigger(c, req)
      [] req.action = "EXECUTE_JOB" -> executeJobAction(c, req)
      [] req.action = "PREPROCESS_RUN" -> preprocessRunAction(c, req)
      [] req.action = "DELIVER_HTTP_SOURCE_REQUEST" -> deliverHttpSourceRequest(c, req)
      [] OTHER -> MethodNotAllowed

\* (mutant) dispatches the request first and looks at the API key afterwards
handleRequestAuthorizesLast(c, req, apiOk) ==
    LET r == IF req.method = "GET" THEN handleGet(c, req)
             ELSE IF req.method = "POST" THEN handlePost(c, req, apiOk)
             ELSE MethodNotAllowed
    IN  IF ~authorized(req.apiKey)
        THEN Returned(401, MessageBody("Unauthorized"), r.reads, r.calls, r.effects)
        ELSE r

handleRequest(c, req, apiOk) ==
    IF ~authorized(req.apiKey)
    THEN Returned(401, MessageBody("Unauthorized"), {}, <<>>, <<>>)
    ELSE IF req.method = "GET"
    THEN handleGet(c, req)
    ELSE IF req.method = "POST"
    THEN handlePost(c, req, apiOk)
    ELSE MethodNotAllowed

-----------------------------------------------------------------------------
(* Construction: the endpoint URL *)

\* the variables of process.env that buildEndpointUrl reads
Env(endpoint, triggerHost, host, hostname, nowUrl, vercelUrl) ==
    [TRIGGER_ENDPOINT |-> endpoint, TRIGGER_HOST |-> triggerHost, HOST |-> host,
     HOSTNAME |-> hostname, NOW_URL |-> nowUrl, VERCEL_URL |-> vercelUrl]

\* a ?? b
Coalesce(a, b) == IF a # Undefined THEN a ELSE b

EndpointError ==
    "Could not determine the endpoint for the trigger client. Please set the TRIGGER_ENDPOINT environment variable."

EndpointResult(thrown, url, message) == [thrown |-> thrown, url |-> url, message |-> message]

buildEndpointUrl(path, env) ==
    LET host == Coalesce(env.TRIGGER_HOST, Coalesce(env.HOST, Coalesce(env.HOSTNAME,
                    Coalesce(env.NOW_URL, env.VERCEL_URL))))
    IN  IF env.TRIGGER_ENDPOINT \notin {Undefined, ""}
        THEN EndpointResult(FALSE, env.TRIGGER_ENDPOINT \o Coalesce(path, ""), "")
        ELSE IF host \notin {Undefined, ""}
        THEN EndpointResult(FALSE, "https://" \o host \o Coalesce(path, ""), "")
        ELSE EndpointResult(TRUE, Undefined, EndpointError)

\* this.endpoint = options.endpoint ?? buildEndpointUrl(options.path)
TriggerClient(options, env) ==
    IF options.endpoint # Undefined
    THEN EndpointResult(FALSE, options.endpoint, "")
    ELSE buildEndpointUrl(options.path, env)

EndpointOptions(endpoint, path) == [endpoint |-> endpoint, path |-> path]

Construction(status, options, env, url, message) ==
    [status |-> status, options |-> options, env |-> env, endpoint |-> url, message |-> message]

\* before new TriggerClient(name, options) is evaluated
NotConstructed(options, env) == Construction("new", options, env, Undefined, "")

\* the outcome of new TriggerClient(name, options)
Constructed(options, env) ==
    LET r == TriggerClient(options, env)
    IN  Construction(IF r.thrown THEN "threw" ELSE "constructed", options, env, r.url, r.message)

NoEnv == Env(Undefined, Undefined, Undefined, Undefined, Undefined, Undefined)

\* a client constructed with an explicit endpoint
DefaultConstruction == Constructed(EndpointOptions("https://app/api/trigger", Undefined), NoEnv)

-----------------------------------------------------------------------------
(* State machine: the application's setup calls and the backend's requests. *)
(* Calls are sequential; request, response and observed describe the call   *)
(* in progress and are cleared when it has returned.                        *)

NoResponse == [thrown |-> FALSE, status |-> 0, body |-> MessageBody("")]

NoObservation == [reads |-> {}, calls |-> <<>>, effects |-> <<>>]

NoRun == [status |-> "idle", jobId |-> Undefined, cache |-> <<>>, effects |-> <<>>,
          suspensions |-> 0, invocations |-> 0]

NoAttachLog ==
    [nCalls |-> 0, thrown |-> FALSE, op |-> "none", calls |-> <<>>,
     sourceEvents |-> EmptyRegistry, sourceFirst |-> EmptyRegistry,
     sourceLast |-> EmptyRegistry,
     triggerRefs |-> EmptyRegistry, scheduleRefs |-> EmptyRegistry, disabledIds |-> {}]

\* an invocation in progress: awaiting (suspended at its await) or done
\* (its promise has settled and the caller has not taken the response yet)
Invocation(status, req, apiOk, resp, obs) ==
    [status |-> status, request |-> req, apiOk |-> apiOk, response |-> resp, observed |-> obs]

NoInvocation == Invocation("idle", NoRequest, TRUE, NoResponse, NoObservation)

NoInflight == [i \in 1..MaxInFlight |-> NoInvocation]

\* no handleRequest call is in progress
Idle ==
    /\ request = NoRequest
    /\ \A i \in DOMAIN inflight : inflight[i].status = "idle"

\* the fields of a client as their initialisers leave them
InitFields(option, env) ==
    /\ apiKeyOption = option
    /\ envApiKey = env
    /\ registeredJobs = EmptyRegistry
    /\ registeredSources = EmptyRegistry
    /\ registeredHttpSourceHandlers = EmptyRegistry
    /\ registeredDynamicTriggers = EmptyRegistry
    /\ jobMetadataByDynamicTriggers = EmptyRegistry
    /\ registeredSchedules = EmptyRegistry
    /\ request = NoRequest
    /\ response = NoResponse
    /\ observed = NoObservation
    /\ attachLog = NoAttachLog
    /\ run = NoRun
    /\ inflight = NoInflight

InitWith(option, env) ==
    /\ InitFields(option, env)
    /\ construction = DefaultConstruction

SetClient(c) ==
    /\ registeredJobs' = c.registeredJobs
    /\ registeredSources' = c.registeredSources
    /\ registeredHttpSourceHandlers' = c.registeredHttpSourceHandlers
    /\ registeredDynamicTriggers' = c.registeredDynamicTriggers
    /\ jobMetadataByDynamicTriggers' = c.jobMetadataByDynamicTriggers
    /\ registeredSchedules' = c.registeredSchedules

\* an attach* call with result r; log is the history with this call's arguments added
Registration(r, op, log, max) ==
    /\ Idle
    /\ attachLog.nCalls < max
    /\ SetClient(r.client)
    /\ attachLog' = [log EXCEPT !.nCalls = @ + 1, !.thrown = r.thrown, !.op = op,
                                !.calls = r.calls]
    /\ UNCHANGED <<construction, inflight, apiKeyOption, envApiKey, request, response, observed, run>>

Logged(reg, k, ref) == Put(reg, k, Append(IF HasOwn(reg, k) THEN reg[k] ELSE <<>>, ref))

Attach(job, max) ==
    Registration(attach(Client, job), "attach",
                 IF ~job.enabled
                 THEN [attachLog EXCEPT !.disabledIds = @ \cup {job.id}]
                 ELSE IF job.trigger.kind = "dynamic"
                 THEN [attachLog EXCEPT !.triggerRefs = Logged(@, job.trigger.id, JobRef(job))]
                 ELSE attachLog,
                 max)

AttachDynamicTrigger(trigger, max) ==
    Registration(attachDynamicTrigger(Client, trigger), "attachDynamicTrigger", attachLog, max)

AttachJobToDynamicTrigger(job, trigger, max) ==
    Registration(attachJobToDynamicTrigger(Client, job, trigger), "attachJobToDynamicTrigger",
                 [attachLog EXCEPT !.triggerRefs = Logged(@, trigger.id, JobRef(job))],
                 max)

AttachSource(options, max) ==
    Registration(attachSource(Client, options), "attachSource",
                 [attachLog EXCEPT
                    !.sourceEvents =
                        Put(@, options.key,
                            (IF HasOwn(@, options.key) THEN @[options.key] ELSE {})
                                \cup {options.event}),
                    !.sourceFirst =
                        IF HasOwn(@, options.key) THEN @ ELSE Put(@, options.key, options),
                    !.sourceLast = Put(@, options.key, options.source)],
                 max)

AttachDynamicSchedule(key, job, max) ==
    Registration(attachDynamicSchedule(Client, key, job), "attachDynamicSchedule",
                 [attachLog EXCEPT !.scheduleRefs = Logged(@, key, JobRef(job))],
                 max)

\* one handleRequest call, run to completion
HandleRequest(req, apiOk) ==
    /\ Idle
    /\ LET r == handleRequest(Client, req, apiOk)
       IN  /\ request' = req
           /\ response' = [thrown |-> r.thrown, status |-> r.status, body |-> r.body]
           /\ observed' = [reads |-> r.reads, calls |-> r.calls, effects |-> r.effects]
    /\ UNCHANGED <<construction, inflight, apiKeyOption, envApiKey, registries, attachLog, run>>

\* the call has returned
Return ==
    /\ ~Idle
    /\ request' = NoRequest
    /\ response' = NoResponse
    /\ observed' = NoObservation
    /\ UNCHANGED <<construction, inflight, apiKeyOption, envApiKey, registries, attachLog, run>>

Options(key, source, event, params) ==
    [key |-> key, source |-> source, event |-> event, params |-> params]

-----------------------------------------------------------------------------
(* Specification SpecAttach: the application's registration calls alone *)

AttachJobs == {JobReturn, JobDisabled, JobDynamic, JobDynamicProto, JobFail}

AttachOptions ==
    {Options(k, src, e, p) : k \in {"a", "b", "constructor"}, src \in {SourceQuiet, SourceLoud},
                             e \in {"e1", "e2"}, p \in {"p1", "p2"}}

InitAttach == InitWith("k1", Undefined)

NextAttach ==
    \/ \E job \in AttachJobs : Attach(job, MaxCalls)
    \/ \E trigger \in DynamicTriggers : AttachDynamicTrigger(trigger, MaxCalls)
    \/ \E job \in {JobReturn, JobSuspend}, trigger \in DynamicTriggers :
          AttachJobToDynamicTrigger(job, trigger, MaxCalls)
    \/ \E options \in AttachOptions : AttachSource(options, MaxCalls)
    \/ \E key \in {"a", "constructor"}, job \in {JobReturn, JobSuspend} :
          AttachDynamicSchedule(key, job, MaxCalls)

SpecAttach == InitAttach /\ [][NextAttach]_vars

-----------------------------------------------------------------------------
(* Specification Spec: a short setup, then the backend's requests *)

Key == "k1"

SetupJobs ==
    {JobReturn, JobReturnNothing, JobSuspend, JobSuspendError, JobFail, JobFailMessage,
     JobFailUnknown, JobDisabled}

SetupOptions ==
    {Options(k, SourceLoud, "e1", "p1") : k \in {"a", "constructor"}}
        \cup {Options("a", SourcePlain, "e1", "p1")}

Bodies ==
    {Garbage}
        \cup {RunBody(id, "r1", payload, <<>>) :
                 id \in {"a", "b", "constructor"}, payload \in {"ok", "malformed"}}
        \cup {PreprocessBody(id, payload) :
                 id \in {"a", "b", "constructor"}, payload \in {"ok", "malformed"}}
        \cup {TriggerBody(id) : id \in {"a", "b", "constructor"}}

GetRequests ==
    {Request("GET", Key, action, jobId, body, NoTsHeaders) :
        action \in {Undefined, "PING", "EXECUTE_JOB"},
        jobId \in {Undefined, "", "a", "b", "constructor"},
        body \in {Garbage, RunBody("a", "r1", "ok", <<>>)}}

PostRequests ==
    {Request("POST", Key, action, Undefined, body, ts) :
        action \in Actions, body \in Bodies,
        ts \in {NoTsHeaders, TsHeaders(TRUE, "a", Undefined)}}

DeliverRequests ==
    {Request("POST", Key, "DELIVER_HTTP_SOURCE_REQUEST", Undefined, body, ts) :
        body \in {Garbage, RunBody("a", "r1", "ok", <<>>)},
        ts \in {TsHeaders(TRUE, k, d) : k \in {"a", "constructor"},
                                        d \in {Undefined, "", "a", "b", "constructor"}}}

OtherRequests ==
    {Request(method, apiKey, action, Undefined, Garbage, NoTsHeaders) :
        method \in {"PUT", "DELETE"}, apiKey \in {Key, "k2"}, action \in Actions}

\* requests to the three job and source actions without a key or with a wrong one
UnauthorizedRequests ==
    {Request("POST", apiKey, action, Undefined, body, TsHeaders(TRUE, "a", Undefined)) :
        apiKey \in {Undefined, "k2"},
        action \in {"EXECUTE_JOB", "PREPROCESS_RUN", "DELIVER_HTTP_SOURCE_REQUEST"},
        body \in {RunBody("a", "r1", "ok", <<>>), PreprocessBody("a", "ok")}}

Requests ==
    GetRequests \cup PostRequests \cup DeliverRequests \cup OtherRequests
        \cup UnauthorizedRequests

\* the backend client's call can fail only where one is made
ApiOutcomes(req) == IF req.method = "POST" /\ req.action = "INITIALIZE" THEN BOOLEAN ELSE {TRUE}

Init == InitWith(Key, Undefined) \/ InitWith(Undefined, Key)

Next ==
    \/ \E job \in SetupJobs : Attach(job, MaxAttach)
    \/ \E trigger \in DynamicTriggers : AttachDynamicTrigger(trigger, MaxAttach)
    \/ \E options \in SetupOptions : AttachSource(options, MaxAttach)
    \/ \E req \in Requests : \E apiOk \in ApiOutcomes(req) : HandleRequest(req, apiOk)
    \/ Return

Spec == Init /\ [][Next]_vars

-----------------------------------------------------------------------------
(* Specification SpecAuth: every key configuration against every kind of request *)

AuthRequests ==
    {Request(method, apiKey, action, jobId, body, ts) :
        method \in {"GET", "POST", "PUT"}, apiKey \in {Undefined, "", Key, "k2"}, action \in Actions,
        jobId \in {Undefined, "a"}, body \in {Garbage, RunBody("a", "r1", "ok", <<>>)},
        ts \in {NoTsHeaders, TsHeaders(TRUE, "a", Undefined)}}

InitAuth ==
    \E option \in {Undefined, "", Key}, env \in {Undefined, "", Key, "k2"} : InitWith(option, env)

NextAuth ==
    \/ \E job \in {JobReturn, JobSuspend} : Attach(job, MaxAttach)
    \/ \E options \in SetupOptions : AttachSource(options, MaxAttach)
    \/ \E req \in AuthRequests : \E apiOk \in ApiOutcomes(req) : HandleRequest(req, apiOk)
    \/ Return

SpecAuth == InitAuth /\ [][NextAuth]_vars

-----------------------------------------------------------------------------
(* Claim C1 (checked under SpecAuth) *)

Answer(status, body) == [thrown |-> FALSE, status |-> status, body |-> body]

\* the x-trigger-api-key header is absent or differs from the configured key, or
\* no key is configured at all
KeyMissingOrWrong(req) ==
    \/ req.apiKey = Undefined
    \/ req.apiKey # localApiKey
    \/ apiKeyOption = Undefined /\ envApiKey = Undefined

\* C1: a request whose x-trigger-api-key header is absent or differs from the
\* configured key, and any request when no key is configured, is answered 401
\* {message: "Unauthorized"}, whatever its method, action, body and the
\* registries are; nothing is read and no collaborator is called.
C1_UnauthorizedIs401 ==
    (~Idle /\ KeyMissingOrWrong(request))
        => /\ response = Answer(401, MessageBody("Unauthorized"))
           /\ observed = NoObservation

\* an EXECUTE_JOB request for a registered job, refused for its key
C1_Witness ==
    /\ ~Idle
    /\ KeyMissingOrWrong(request)
    /\ request.apiKey = "k2"
    /\ request.method = "POST"
    /\ request.action = "EXECUTE_JOB"
    /\ RunJobBodySchema(request.body)
    /\ HasOwn(registeredJobs, request.body.id)
    /\ response.status = 401

-----------------------------------------------------------------------------
(* Claims C2..C5, C9, C10: the dispatcher (checked under Spec) *)

AuthorizedPost(action) ==
    /\ ~Idle
    /\ authorized(request.apiKey)
    /\ request.method = "POST"
    /\ request.action = action

RejectedAsInvalid ==
    /\ ~response.thrown
    /\ response.status = 400
    /\ observed = NoObservation

\* C2 as stated: for each of the five POST actions a body that fails the
\* action's schema is answered 400 and no registry is read.  INITIALIZE and
\* DELIVER_HTTP_SOURCE_REQUEST are given the body no schema accepts.
C2_InvalidBodyIs400 ==
    /\ AuthorizedPost("INITIALIZE_TRIGGER") /\ ~InitializeTriggerBodySchema(request.body)
          => RejectedAsInvalid
    /\ AuthorizedPost("EXECUTE_JOB") /\ ~RunJobBodySchema(request.body)
          => RejectedAsInvalid
    /\ AuthorizedPost("PREPROCESS_RUN") /\ ~PreprocessRunBodySchema(request.body)
          => RejectedAsInvalid
    /\ AuthorizedPost("INITIALIZE") /\ request.body = Garbage
          => RejectedAsInvalid
    /\ AuthorizedPost("DELIVER_HTTP_SOURCE_REQUEST") /\ request.body = Garbage
          => RejectedAsInvalid

\* C2 amended: INITIALIZE_TRIGGER, EXECUTE_JOB and PREPROCESS_RUN answer 400 to
\* a body that fails their schema, DELIVER_HTTP_SOURCE_REQUEST answers 400 to
\* x-ts-* headers that fail the header schema (its body is not validated), all
\* before any registry is read; INITIALIZE validates nothing and never
\* answers 400.
C2_InvalidInputIs400 ==
    /\ AuthorizedPost("INITIALIZE_TRIGGER") /\ ~InitializeTriggerBodySchema(request.body)
          => RejectedAsInvalid
    /\ AuthorizedPost("EXECUTE_JOB") /\ ~RunJobBodySchema(request.body)
          => RejectedAsInvalid
    /\ AuthorizedPost("PREPROCESS_RUN") /\ ~PreprocessRunBodySchema(request.body)
          => RejectedAsInvalid
    /\ AuthorizedPost("DELIVER_HTTP_SOURCE_REQUEST") /\ ~HttpSourceRequestHeadersSchema(request.ts)
          => RejectedAsInvalid
    /\ AuthorizedPost("DELIVER_HTTP_SOURCE_REQUEST") /\ HttpSourceRequestHeadersSchema(request.ts)
          => response.status # 400
    /\ AuthorizedPost("INITIALIZE") => response.status # 400

\* an EXECUTE_JOB request that names a registered job in a body of the wrong
\* shape is answered 400
C2_Witness ==
    /\ AuthorizedPost("EXECUTE_JOB")
    /\ request.body.shape = "preprocess"
    /\ HasOwn(registeredJobs, request.body.id)
    /\ response.status = 400

ValidExecuteJob ==
    /\ AuthorizedPost("EXECUTE_JOB")
    /\ RunJobBodySchema(request.body)

NotFoundWithoutEffect ==
    /\ response = Answer(404, MessageBody("Job not found"))
    /\ observed.calls = <<>>
    /\ observed.effects = <<>>

\* C3: a valid EXECUTE_JOB request whose job.id is not a key of the job
\* registry is answered 404; no run function, IO object or external call is made.
C3_UnknownJobIs404 ==
    (ValidExecuteJob /\ ~HasOwn(registeredJobs, request.body.id)) => NotFoundWithoutEffect

\* C3 for job ids that are not members of Object.prototype (supporting lemma)
C3_HoldsForPlainIds ==
    (ValidExecuteJob /\ Missing(registeredJobs, request.body.id)) => NotFoundWithoutEffect

\* the run function of the requested job is invoked and behaves as kind says
RunFunctionIs(kind) ==
    /\ ValidExecuteJob
    /\ HasOwn(registeredJobs, request.body.id)
    /\ registeredJobs[request.body.id].run.kind = kind
    /\ ~(registeredJobs[request.body.id].strict /\ request.body.payload = "malformed")

RequestedRun == registeredJobs[request.body.id].run

\* C4: when the run function of the requested job raises the suspension signal
\* carrying task T, the answer is 200 (never 500) with completed = false and
\* task = T, also when the signal has the shape of an error.
C4_SuspensionIs200 ==
    (RunFunctionIs("throw") /\ RequestedRun.err.resume)
        => response = Answer(200, [completed |-> FALSE, output |-> Undefined,
                                   executionId |-> request.body.runId,
                                   task |-> RequestedRun.err.task])

\* a suspension signal that also matches the error-with-stack shape was answered 200
C4_Witness ==
    /\ RunFunctionIs("throw")
    /\ RequestedRun.err.resume
    /\ ErrorWithStackSchema(RequestedRun.err)
    /\ response.status = 200
    /\ response.body.task = "t2"

\* C5: when the run function of the requested job returns V, the answer is 200
\* with completed = true, output = V, executionId = the request's run.id, no task.
C5_ReturnIsCompleted ==
    RunFunctionIs("return")
        => response = Answer(200, [completed |-> TRUE, output |-> RequestedRun.value,
                                   executionId |-> request.body.runId, task |-> Undefined])

C5_Witness ==
    /\ RunFunctionIs("return")
    /\ response.status = 200
    /\ response.body.output = "V"
    /\ response.body.executionId = "r1"
    /\ "run" \in Range(observed.calls)

DeliveryFor(dynamicId) ==
    /\ AuthorizedPost("DELIVER_HTTP_SOURCE_REQUEST")
    /\ HttpSourceRequestHeadersSchema(request.ts)
    /\ request.ts.dynamicId = dynamicId

SilentlyAcknowledged ==
    /\ response = Answer(200, [events |-> <<>>, eventsDefined |-> TRUE,
                               response |-> Acknowledgement])
    /\ observed.calls = <<>>
    /\ "registeredHttpSourceHandlers" \notin observed.reads

\* C9: a DELIVER_HTTP_SOURCE_REQUEST with valid headers whose x-ts-dynamic-id
\* names no registered dynamic trigger is answered 200 {events: [], response:
\* {status: 200, body: {ok: true}}}; no handle operation runs and the static
\* handler of the same x-ts-key is not consulted.
C9_UnknownDynamicIdAcknowledged ==
    \A d \in {"a", "b", "constructor"} :
        (DeliveryFor(d) /\ ~HasOwn(registeredDynamicTriggers, d)) => SilentlyAcknowledged

\* C9 for dynamic ids that are not members of Object.prototype (supporting lemma)
C9_HoldsForPlainIds ==
    \A d \in {"a", "b", "constructor"} :
        (DeliveryFor(d) /\ Missing(registeredDynamicTriggers, d)) => SilentlyAcknowledged

AuthorizedPing ==
    /\ ~Idle
    /\ authorized(request.apiKey)
    /\ request.method = "GET"
    /\ request.action = "PING"

\* C10: an authorized GET with action PING is answered exactly 200 {message:
\* "PONG"}, whatever the registries, the body and the x-trigger-job-id header are.
C10_PingIsPong ==
    AuthorizedPing => /\ response = Answer(200, MessageBody("PONG"))
                      /\ observed = NoObservation

\* a PING that carries the id of a job that is not registered
C10_Witness ==
    /\ AuthorizedPing
    /\ request.jobId = "b"
    /\ Missing(registeredJobs, request.jobId)
    /\ request.body # Garbage
    /\ response.status = 200

-----------------------------------------------------------------------------
(* Specification SpecResume: the backend drives one run of a job to its end, *)
(* re-invoking EXECUTE_JOB after each suspension with the task it was given  *)
(* appended to the task cache.                                               *)

\* the io tasks the run function of a job performs, in order
TasksOf(job) ==
    CASE job.run.kind = "tasks" -> SubSeq(TaskNames, 1, job.run.n)
      [] job.run.kind = "register" /\ job.run.source.updates -> <<"update-source">>
      [] OTHER -> <<>>

\* jobs whose run function does nothing but io tasks
UsesOnlyIo(job) == job.run.kind \in {"tasks", "return", "register"}

ExecuteJobRequest(id, cache) ==
    Request("POST", Key, "EXECUTE_JOB", Undefined, RunBody(id, "r1", "ok", cache), NoTsHeaders)

\* one EXECUTE_JOB call for the run, and what the backend records of its answer
Invoke(id, cache) ==
    LET req == ExecuteJobRequest(id, cache)
        r == handleRequest(Client, req, TRUE)
        status == IF r.thrown \/ r.status # 200 THEN "failed"
                  ELSE IF r.body.completed THEN "completed" ELSE "suspended"
    IN  /\ Idle
        /\ request' = req
        /\ response' = [thrown |-> r.thrown, status |-> r.status, body |-> r.body]
        /\ observed' = [reads |-> r.reads, calls |-> r.calls, effects |-> r.effects]
        /\ run' = [status |-> status,
                   jobId |-> id,
                   cache |-> IF status = "suspended" THEN Append(cache, r.body.task) ELSE cache,
                   effects |-> run.effects \o r.effects,
                   suspensions |-> run.suspensions + (IF status = "suspended" THEN 1 ELSE 0),
                   invocations |-> run.invocations + 1]
        /\ UNCHANGED <<construction, inflight, apiKeyOption, envApiKey, registries, attachLog>>

StartRun(id) ==
    /\ run.status = "idle"
    /\ HasOwn(registeredJobs, id)
    /\ UsesOnlyIo(registeredJobs[id])
    /\ Invoke(id, <<>>)

ResumeRun ==
    /\ run.status = "suspended"
    /\ Invoke(run.jobId, run.cache)

\* the backend is done with the run
ForgetRun ==
    /\ Idle
    /\ run.status \in {"completed", "failed"}
    /\ run' = NoRun
    /\ UNCHANGED <<construction, inflight, apiKeyOption, envApiKey, registries, request, response, observed, attachLog>>

ResumeJobs == TaskJobs \cup {JobReturnNothing, JobSuspend}

InitResume == InitWith(Key, Undefined)

\* the registered job of a run stays the same: setup calls are made between runs
NextResume ==
    \/ run.status = "idle" /\ \E job \in ResumeJobs : Attach(job, MaxAttach)
    \/ run.status = "idle" /\ \E src \in {SourceQuiet, SourceLoud} :
          AttachSource(Options("b", src, "e1", "p1"), MaxAttach)
    \/ \E id \in DOMAIN registeredJobs : StartRun(id)
    \/ ResumeRun
    \/ Return
    \/ ForgetRun

SpecResume ==
    InitResume /\ [][NextResume]_vars /\ WF_vars(ResumeRun) /\ WF_vars(Return)

-----------------------------------------------------------------------------
(* Claim C6 (checked under SpecResume) *)

NoDuplicates(s) == \A i, j \in 1..Len(s) : s[i] = s[j] => i = j

RunJob == registeredJobs[run.jobId]

\* the first task of the job that has no record in the cache, Undefined if none
FirstTaskNotIn(job, cache) ==
    LET tasks == TasksOf(job)
        open == {i \in 1..Len(tasks) : tasks[i] \notin Range(cache)}
    IN  IF open = {} THEN Undefined
        ELSE tasks[CHOOSE i \in open : \A j \in open : i <= j]

InvocationOfRun == ~Idle /\ run.status # "idle"

C6_Safety ==
    /\ NoDuplicates(run.effects)
    /\ InvocationOfRun =>
          /\ Range(observed.effects) \cap Range(request.body.tasks) = {}
          /\ ~response.thrown /\ response.status = 200
          /\ response.body.completed = (FirstTaskNotIn(RunJob, request.body.tasks) = Undefined)
          /\ response.body.task = FirstTaskNotIn(RunJob, request.body.tasks)
    /\ run.status # "idle" => run.suspensions <= Len(TasksOf(RunJob))
    /\ run.status # "failed"

\* C6: for a job that performs N io tasks, driven by a backend that re-invokes
\* EXECUTE_JOB after each suspension with the cache extended by the task it was
\* given: (a) no task with a record in the supplied cache has its effect
\* performed again, (b) each invocation completes or suspends on the first task
\* not in the cache, (c) the run completes after at most N suspensions.
C6_ResumableExecution ==
    /\ []C6_Safety
    /\ (run.status = "suspended") ~> (run.status = "completed")

\* a run of a job with two tasks completed at its third invocation, each task
\* performed once
C6_Witness ==
    /\ InvocationOfRun
    /\ run.status = "completed"
    /\ run.invocations = 3
    /\ run.suspensions = 2
    /\ run.effects = <<"t1", "t2">>
    /\ request.body.tasks = <<"t1", "t2">>

-----------------------------------------------------------------------------
(* Claims C7, C8: the registration calls (checked under SpecAttach) *)

\* the events list of key k holds exactly the names passed for k, each once
EventsAreTheNamesPassed(k) ==
    /\ HasOwn(registeredSources, k)
    /\ Range(registeredSources[k].events) = attachLog.sourceEvents[k]
    /\ Len(registeredSources[k].events) = Cardinality(attachLog.sourceEvents[k])

\* C7: after any sequence of attachSource calls for a key, the events list of
\* that key's source-registry entry holds exactly the set of event names passed
\* in those calls, each exactly once.
C7_EventsAreUnionOfNames ==
    \A k \in DOMAIN attachLog.sourceEvents : EventsAreTheNamesPassed(k)

\* C7 restricted to keys that are not members of Object.prototype: there the
\* events list is the set of the names passed (supporting lemma)
C7_HoldsForPlainKeys ==
    \A k \in DOMAIN attachLog.sourceEvents \ ObjectPrototypeKeys : EventsAreTheNamesPassed(k)

\* C8: attachJobToDynamicTrigger and attachDynamicSchedule only append: after k
\* calls for a trigger id (schedule key) its job-reference list holds the k
\* references in call order, duplicates included, and no other list exists.
C8_ReferenceListsAreCallHistory ==
    /\ jobMetadataByDynamicTriggers = attachLog.triggerRefs
    /\ registeredSchedules = attachLog.scheduleRefs

\* C8 restricted to ids that are not members of Object.prototype (supporting lemma)
C8_HoldsForPlainKeys ==
    /\ DOMAIN jobMetadataByDynamicTriggers = DOMAIN attachLog.triggerRefs \ ObjectPrototypeKeys
    /\ \A k \in DOMAIN jobMetadataByDynamicTriggers :
          jobMetadataByDynamicTriggers[k] = attachLog.triggerRefs[k]
    /\ DOMAIN registeredSchedules = DOMAIN attachLog.scheduleRefs \ ObjectPrototypeKeys
    /\ \A k \in DOMAIN registeredSchedules :
          registeredSchedules[k] = attachLog.scheduleRefs[k]

-----------------------------------------------------------------------------
(* Specification SpecEndpoint: construction of the client under every        *)
(* combination of the endpoint options and the environment, then listen.     *)

Environments ==
    {Env(endpoint, triggerHost, host, hostname, nowUrl, vercelUrl) :
        endpoint \in {Undefined, "", "https://t"}, triggerHost \in {Undefined, "", "th"},
        host \in {Undefined, "h"}, hostname \in {Undefined, "hn"},
        nowUrl \in {Undefined, "now"}, vercelUrl \in {Undefined, "vercel"}}

InitEndpoint ==
    /\ InitFields(Key, Undefined)
    /\ \E endpoint \in {Undefined, "", "https://e"}, path \in {Undefined, "/api"},
             env \in Environments :
          construction = NotConstructed(EndpointOptions(endpoint, path), env)

\* new TriggerClient(name, options)
Construct ==
    /\ construction.status = "new"
    /\ construction' = Constructed(construction.options, construction.env)
    /\ UNCHANGED <<inflight, apiKeyOption, envApiKey, registries, request, response, observed,
                   attachLog, run>>

\* client.listen(): registers this.endpoint with the backend
Listen(apiOk) ==
    /\ construction.status \in {"constructed", "listening", "listenFailed"}
    /\ construction' = [construction EXCEPT
                           !.status = IF apiOk THEN "listening" ELSE "listenFailed",
                           !.message = IF apiOk THEN "" ELSE ApiError.message]
    /\ UNCHANGED <<inflight, apiKeyOption, envApiKey, registries, request, response, observed,
                   attachLog, run>>

NextEndpoint ==
    \/ Construct
    \/ \E apiOk \in BOOLEAN : Listen(apiOk)

SpecEndpoint == InitEndpoint /\ [][NextEndpoint]_vars

-----------------------------------------------------------------------------
(* Claim C11 (checked under SpecEndpoint) *)

\* no endpoint option, no TRIGGER_ENDPOINT and none of the host variables
NothingConfigured ==
    /\ construction.options.endpoint = Undefined
    /\ construction.env = NoEnv

\* C11: when no endpoint option is given and neither TRIGGER_ENDPOINT nor any
\* host variable is set, constructing the client succeeds; the configuration
\* error is raised only when listen is invoked.
C11_ErrorOnlyAtListen ==
    NothingConfigured => construction.status # "threw"

\* what the code does instead: with nothing configured the constructor raises
\* the configuration error, so listen is never reached (supporting lemma)
C11_ErrorAtConstruction ==
    (NothingConfigured /\ construction.status # "new")
        => /\ construction.status = "threw"
           /\ construction.message = EndpointError

\* listen itself never raises the configuration error (supporting lemma)
C11_ListenHasEndpoint ==
    construction.status \in {"listening", "listenFailed"}
        => /\ construction.endpoint # Undefined
           /\ construction.message # EndpointError

-----------------------------------------------------------------------------
(* Claim C12 (checked under Spec) *)

\* a valid EXECUTE_JOB request for a registered job: the executor is invoked
Executed ==
    /\ ValidExecuteJob
    /\ HasOwn(registeredJobs, request.body.id)

RequestedJob == registeredJobs[request.body.id]

\* the payload parser or the run function of the job raises something for this
\* request
Raises(job, body) ==
    \/ job.strict /\ body.payload = "malformed"
    \/ job.run.kind = "throw"
    \/ /\ job.run.kind = "register"
       /\ job.run.source.updates
       /\ "update-source" \notin Range(body.tasks)

\* what it raises
RaisedBy(job, body) ==
    IF job.strict /\ body.payload = "malformed" THEN ParseError
    ELSE IF job.run.kind = "throw" THEN job.run.err
    ELSE IF job.run.kind = "register" /\ job.run.source.updates
            /\ "update-source" \notin Range(body.tasks)
    THEN ResumeWithTask("update-source")
    ELSE NoError

RaisedAnError(job, body) == Raises(job, body) /\ ~RaisedBy(job, body).resume

\* C12: an executed EXECUTE_JOB request is answered 500 if and only if the job
\* logic raised something other than the suspension signal, and then the body
\* is the executor's classified error; otherwise (normal return or suspension)
\* it is answered 200 with {completed, output, executionId, task}.
C12_ErrorIs500 ==
    Executed =>
        LET results == executeJob(request.body, RequestedJob)
        IN  /\ ~response.thrown
            /\ results.hasError = RaisedAnError(RequestedJob, request.body)
            /\ (response.status = 500) = RaisedAnError(RequestedJob, request.body)
            /\ response.status = 500 => response.body = results.error
            /\ response.status # 500 =>
                  /\ response.status = 200
                  /\ response.body = [completed |-> results.completed, output |-> results.output,
                                      executionId |-> request.body.runId, task |-> results.task]

\* a run function that raised an error with message and stack was answered 500
C12_Witness ==
    /\ Executed
    /\ RequestedJob.run.kind = "throw"
    /\ "run" \in Range(observed.calls)
    /\ response.status = 500
    /\ response.body = [message |-> "boom", stack |-> "at run"]

-----------------------------------------------------------------------------
(* Claim C13 (checked under Spec) *)

\* an authorized request with a method other than GET and POST, or a POST whose
\* action header is missing or names none of the five actions
Unsupported ==
    /\ ~Idle
    /\ authorized(request.apiKey)
    /\ \/ request.method \notin {"GET", "POST"}
       \/ request.method = "POST" /\ request.action \notin PostActions

\* C13: an authorized request is answered 405 when its method is neither GET
\* nor POST, and when it is a POST whose action is missing or is not one of the
\* five POST actions (PING included); no registry is read and no collaborator
\* is called.
C13_UnsupportedIs405 ==
    Unsupported => /\ response = Answer(405, MessageBody("Method not allowed"))
                   /\ observed = NoObservation

\* a POST with action PING and a valid execution body for a registered job
C13_Witness ==
    /\ Unsupported
    /\ request.method = "POST"
    /\ request.action = "PING"
    /\ RunJobBodySchema(request.body)
    /\ HasOwn(registeredJobs, request.body.id)
    /\ response.status = 405

-----------------------------------------------------------------------------
(* Claim C14 (checked under SpecAttach) *)

\* the job registry after the step is the one before it with job stored under its id
StoredUnderItsId(job) ==
    /\ DOMAIN registeredJobs' = DOMAIN registeredJobs \cup {job.id}
    /\ registeredJobs'[job.id] = job
    /\ \A k \in DOMAIN registeredJobs \ {job.id} : registeredJobs'[k] = registeredJobs[k]

\* C14: attach(job) with job.enabled = false leaves all six registries as they
\* are and does not invoke the trigger's attachToJob; with job.enabled = true
\* it stores the job under job.id, replacing any entry of that id, and invokes
\* trigger.attachToJob exactly once.
C14_AttachRespectsEnabled ==
    [][\A job \in AttachJobs :
          Attach(job, MaxCalls) =>
             IF ~job.enabled
             THEN /\ UNCHANGED registries
                  /\ attachLog'.calls = <<>>
             ELSE /\ StoredUnderItsId(job)
                  /\ attachLog'.calls = <<"attachToJob">>]_vars

\* attach was called with a disabled job on a client that holds a job: the
\* registries are as before and attachToJob was not invoked
C14_Witness ==
    /\ attachLog.op = "attach"
    /\ attachLog.nCalls = 2
    /\ attachLog.disabledIds = {"b"}
    /\ attachLog.calls = <<>>
    /\ DOMAIN registeredJobs = {"a"}

-----------------------------------------------------------------------------
(* Claim C15 (checked under Spec) *)

Invoked(call) == call \in Range(observed.calls)

\* the request passed the key check, is a POST with this action and a body the
\* action's schema accepts, and names a job of the registry
ReachedJob(action, schema) ==
    /\ authorized(request.apiKey)
    /\ request.method = "POST"
    /\ request.action = action
    /\ request.body.shape = schema
    /\ HasOwn(registeredJobs, request.body.id)

\* C15: a job's run function is invoked only by an authorized POST EXECUTE_JOB
\* with a valid body that names a registered job, its payload parser only by
\* such a request or the like for PREPROCESS_RUN; a request answered 401 or 400
\* invokes neither, nor a source's register or handle.
C15_JobLayerBehindChecks ==
    ~Idle =>
        /\ Invoked("run") => ReachedJob("EXECUTE_JOB", "run")
        /\ Invoked("parsePayload") =>
              \/ ReachedJob("EXECUTE_JOB", "run")
              \/ ReachedJob("PREPROCESS_RUN", "preprocess")
        /\ response.status \in {400, 401} =>
              \A call \in {"parsePayload", "run", "register", "handle"} : ~Invoked(call)

\* a PREPROCESS_RUN request that names a registered job whose parser would
\* reject the payload, in a body of the wrong shape: answered 400, parser not run
C15_Witness ==
    /\ ~Idle
    /\ authorized(request.apiKey)
    /\ request.method = "POST"
    /\ request.action = "PREPROCESS_RUN"
    /\ request.body.shape = "run"
    /\ request.body.payload = "malformed"
    /\ HasOwn(registeredJobs, request.body.id)
    /\ registeredJobs[request.body.id].strict
    /\ response.status = 400
    /\ ~Invoked("parsePayload")

-----------------------------------------------------------------------------
(* Specification SpecConcurrent: after the setup calls, several handleRequest *)
(* invocations are in progress at once.  An invocation runs without           *)
(* interruption up to its await (of listen, #executeJob, #preprocessRun or    *)
(* #handleHttpSourceRequest) and from there to its return; other invocations  *)
(* run in between.  Every registry read precedes the await.                   *)

\* the invocation reaches one of the four awaits of handleRequest
Awaits(c, req) ==
    /\ authorized(req.apiKey)
    /\ req.method = "POST"
    /\ CASE req.action = "INITIALIZE" -> TRUE
         [] req.action = "EXECUTE_JOB" ->
               RunJobBodySchema(req.body) /\ ~Missing(c.registeredJobs, req.body.id)
         [] req.action = "PREPROCESS_RUN" ->
               PreprocessRunBodySchema(req.body) /\ ~Missing(c.registeredJobs, req.body.id)
         [] req.action = "DELIVER_HTTP_SOURCE_REQUEST" -> HttpSourceRequestHeadersSchema(req.ts)
         [] OTHER -> FALSE

ResponseOf(r) == [thrown |-> r.thrown, status |-> r.status, body |-> r.body]

ObservedOf(r) == [reads |-> r.reads, calls |-> r.calls, effects |-> r.effects]

\* (mutant) an invocation that takes the job it executes out of the registry
StartAndUnregister(i, req, apiOk) ==
    LET r == handleRequest(Client, req, apiOk)
        id == req.body.id
    IN  /\ request = NoRequest
        /\ inflight[i].status = "idle"
        /\ inflight' = [inflight EXCEPT ![i] =
                           Invocation(IF Awaits(Client, req) THEN "awaiting" ELSE "done",
                                      req, apiOk, ResponseOf(r), ObservedOf(r))]
        /\ registeredJobs' = IF req.action = "EXECUTE_JOB" /\ HasOwn(registeredJobs, id)
                             THEN [k \in DOMAIN registeredJobs \ {id} |-> registeredJobs[k]]
                             ELSE registeredJobs
        /\ UNCHANGED <<construction, apiKeyOption, envApiKey, registeredSources,
                       registeredHttpSourceHandlers, registeredDynamicTriggers,
                       jobMetadataByDynamicTriggers, registeredSchedules,
                       request, response, observed, attachLog, run>>

\* invocation i runs from its call to its first await, or to its return if it
\* reaches none
Start(i, req, apiOk) ==
    LET r == handleRequest(Client, req, apiOk)
    IN  /\ request = NoRequest
        /\ inflight[i].status = "idle"
        /\ inflight' = [inflight EXCEPT ![i] =
                           Invocation(IF Awaits(Client, req) THEN "awaiting" ELSE "done",
                                      req, apiOk, ResponseOf(r), ObservedOf(r))]
        /\ UNCHANGED <<construction, apiKeyOption, envApiKey, registries,
                       request, response, observed, attachLog, run>>

\* invocation i is resumed after its await and runs to its return
Finish(i) ==
    /\ inflight[i].status = "awaiting"
    /\ inflight' = [inflight EXCEPT ![i].status = "done"]
    /\ UNCHANGED <<construction, apiKeyOption, envApiKey, registries,
                   request, response, observed, attachLog, run>>

\* the caller of invocation i has its response
Retire(i) ==
    /\ inflight[i].status = "done"
    /\ inflight' = [inflight EXCEPT ![i] = NoInvocation]
    /\ UNCHANGED <<construction, apiKeyOption, envApiKey, registries,
                   request, response, observed, attachLog, run>>

ConcurrentRequests ==
    {Request("GET", Key, Undefined, Undefined, Garbage, NoTsHeaders),
     Request("POST", Key, "INITIALIZE", Undefined, Garbage, NoTsHeaders),
     Request("POST", Key, "EXECUTE_JOB", Undefined, RunBody("a", "r1", "ok", <<>>), NoTsHeaders),
     Request("POST", Key, "EXECUTE_JOB", Undefined, RunBody("b", "r2", "ok", <<>>), NoTsHeaders),
     Request("POST", Key, "PREPROCESS_RUN", Undefined, PreprocessBody("a", "malformed"), NoTsHeaders),
     Request("POST", Key, "DELIVER_HTTP_SOURCE_REQUEST", Undefined, Garbage,
             TsHeaders(TRUE, "a", Undefined))}

InitConcurrent == InitWith(Key, Undefined)

NextConcurrent ==
    \/ \E job \in {JobReturn, JobSuspend} : Attach(job, MaxAttach)
    \/ AttachSource(Options("a", SourceLoud, "e1", "p1"), MaxAttach)
    \/ \E i \in 1..MaxInFlight, req \in ConcurrentRequests :
          \E apiOk \in ApiOutcomes(req) : Start(i, req, apiOk)
    \/ \E i \in 1..MaxInFlight : Finish(i)
    \/ \E i \in 1..MaxInFlight : Retire(i)

SpecConcurrent == InitConcurrent /\ [][NextConcurrent]_vars

-----------------------------------------------------------------------------
(* Claim C16 (checked under SpecConcurrent) *)

\* the response invocation i would get if it ran alone against the registries
Alone(i) == ResponseOf(handleRequest(Client, inflight[i].request, inflight[i].apiOk))

\* C16: no step of a handleRequest invocation writes to a registry, whatever
\* the request is; so when invocations are interleaved at their awaits after
\* the setup phase, each returns the response it would return if it ran alone
\* against the same registries.
C16_RequestsDoNotInterfere ==
    /\ [][inflight' # inflight => UNCHANGED registries]_vars
    /\ [](\A i \in 1..MaxInFlight :
             inflight[i].status = "done" => inflight[i].response = Alone(i))

\* an execution of job a returned while an execution of job b was suspended at
\* its await
C16_Witness ==
    /\ inflight[1].status = "awaiting"
    /\ inflight[1].request.action = "EXECUTE_JOB"
    /\ inflight[1].request.body.id = "b"
    /\ inflight[2].status = "done"
    /\ inflight[2].request.action = "EXECUTE_JOB"
    /\ inflight[2].request.body.id = "a"
    /\ inflight[2].response.status = 200
    /\ inflight[2].response.body.completed

-----------------------------------------------------------------------------
(* Claim C17 (checked under Spec) *)

AuthorizedGet ==
    /\ ~Idle
    /\ authorized(request.apiKey)
    /\ request.method = "GET"
    /\ request.action # "PING"

\* every registered job, every source-registry entry, every registered dynamic
\* trigger with its job references (none appended: the empty list), every
\* schedule key with its job references
Snapshot ==
    [jobs |-> {JobJSON(registeredJobs[k]) : k \in DOMAIN registeredJobs},
     sources |-> {registeredSources[k] : k \in DOMAIN registeredSources},
     dynamicTriggers |->
        {[id |-> registeredDynamicTriggers[k].id,
          jobs |-> IF HasOwn(jobMetadataByDynamicTriggers, k)
                   THEN jobMetadataByDynamicTriggers[k] ELSE <<>>,
          jobsIsArray |-> TRUE] : k \in DOMAIN registeredDynamicTriggers},
     dynamicSchedules |->
        {[id |-> k, jobs |-> registeredSchedules[k]] : k \in DOMAIN registeredSchedules}]

GetAnswer ==
    /\ request.jobId \notin {Undefined, ""} =>
          IF HasOwn(registeredJobs, request.jobId)
          THEN response = Answer(200, JobJSON(registeredJobs[request.jobId]))
          ELSE response = Answer(404, MessageBody("Job not found"))
    /\ request.jobId = Undefined => response = Answer(200, Snapshot)
    /\ response.status # 405

\* C17: an authorized GET whose action is not PING is answered, when it carries
\* a non-empty x-trigger-job-id, 404 if that id is not a key of the job registry
\* and 200 with the job's descriptor otherwise; without the header, 200 with
\* the snapshot of all registries.  It is never answered 405.
C17_GetDescribesRegistries ==
    AuthorizedGet => GetAnswer

\* C17 where no Object.prototype member name is looked up: the job id is a key
\* of the registry or no such name, and every registered dynamic trigger whose
\* id is such a name has a reference list of its own (supporting lemma)
C17_HoldsForPlainIds ==
    (/\ AuthorizedGet
     /\ ~Inherited(registeredJobs, request.jobId)
     /\ \A k \in DOMAIN registeredDynamicTriggers : ~Inherited(jobMetadataByDynamicTriggers, k))
        => GetAnswer

-----------------------------------------------------------------------------
(* Claim C18 (checked under Spec) *)

Delivery ==
    /\ AuthorizedPost("DELIVER_HTTP_SOURCE_REQUEST")
    /\ HttpSourceRequestHeadersSchema(request.ts)

\* what the router is to make of the handle operation of source src
Delivered(src) ==
    CASE src.result = "nothing" ->
            [events |-> <<>>, eventsDefined |-> TRUE, response |-> Acknowledgement]
      [] src.result = "events" ->
            [events |-> <<"ev:" \o src.name>>, eventsDefined |-> TRUE,
             response |-> Acknowledgement]
      [] src.result = "eventsAndResponse" ->
            [events |-> <<"ev:" \o src.name>>, eventsDefined |-> TRUE,
             response |-> [status |-> 500, body |-> [ok |-> FALSE]]]

DeliveryResult ==
    LET d == request.ts.dynamicId
        k == request.ts.key
    IN  /\ (d \notin {Undefined, ""} /\ HasOwn(registeredDynamicTriggers, d))
              => response = Answer(200, Delivered(registeredDynamicTriggers[d].source))
        /\ (d = Undefined /\ HasOwn(registeredHttpSourceHandlers, k))
              => response = Answer(200, Delivered(registeredHttpSourceHandlers[k]))
        /\ (d = Undefined /\ ~HasOwn(registeredHttpSourceHandlers, k))
              => response = Answer(200, [events |-> <<>>, eventsDefined |-> TRUE,
                                         response |-> Acknowledgement])

\* C18: a DELIVER_HTTP_SOURCE_REQUEST with valid headers is routed to the source
\* of the registered dynamic trigger x-ts-dynamic-id names, else to the static
\* handler of x-ts-key.  A handler that returns nothing, and a key with no
\* static handler, give events = [] and the default acknowledgement; otherwise
\* the events are the handler's and the response is the handler's, or the
\* default acknowledgement if it gave none.  The outer status is 200 throughout.
C18_DeliveryIsRouted ==
    Delivery => DeliveryResult

\* C18 for keys that are not members of Object.prototype (supporting lemma)
C18_HoldsForPlainKeys ==
    (Delivery /\ ~Inherited(registeredHttpSourceHandlers, request.ts.key)) => DeliveryResult

-----------------------------------------------------------------------------
(* Claim C19 (checked under Spec) *)

\* the error an outcome is to carry for the raised value e
ErrorFor(e) ==
    IF e.message # Undefined /\ e.stack # Undefined
    THEN [message |-> e.message, stack |-> e.stack]
    ELSE IF e.message # Undefined
    THEN [message |-> e.message, stack |-> Undefined]
    ELSE [message |-> "Unknown error", stack |-> Undefined]

\* C19: what the payload parser or the run function raises inside the executor
\* never leaves handleRequest; unless it is the suspension signal the outcome
\* has completed = true and the error in the form with a stack if the raised
\* value has message and stack, else in the message-only form if it has a
\* message, else {message: "Unknown error"}.
C19_FailuresBecomeOutcomes ==
    (Executed /\ Raises(RequestedJob, request.body)) =>
        LET e == RaisedBy(RequestedJob, request.body)
            results == executeJob(request.body, RequestedJob)
        IN  /\ ~response.thrown
            /\ ~e.resume =>
                  /\ results.completed
                  /\ results.hasError
                  /\ results.error = ErrorFor(e)
                  /\ response.body = ErrorFor(e)

\* a run function raised a value with neither message nor stack
C19_Witness ==
    /\ Executed
    /\ Raises(RequestedJob, request.body)
    /\ RaisedBy(RequestedJob, request.body) = ErrorValue(Undefined, Undefined)
    /\ "run" \in Range(observed.calls)
    /\ ~response.thrown
    /\ response.body.message = "Unknown error"

-----------------------------------------------------------------------------
(* Claim C20 (checked under SpecAttach) *)

\* the source-registry entry of key k describes the first attachSource call for k
MetadataOfFirstCall(k) ==
    LET first == attachLog.sourceFirst[k]
        entry == registeredSources[k]
    IN  /\ entry.key = k
        /\ entry.channel = first.source.channel
        /\ entry.params = first.params
        /\ entry.clientId = IF ~first.source.usesLocalAuth
                            THEN first.source.integrationId ELSE Undefined

\* C20: after any number of attachSource calls for a key, the HTTP handler
\* stored for the key is the one of the latest call, while channel, params and
\* clientId of the key's source-registry entry are those of the first call.
C20_HandlerLatestMetadataFirst ==
    /\ \A k \in DOMAIN attachLog.sourceLast :
          /\ HasOwn(registeredHttpSourceHandlers, k)
          /\ registeredHttpSourceHandlers[k] = attachLog.sourceLast[k]
    /\ \A k \in DOMAIN registeredSources : MetadataOfFirstCall(k)

\* after a second call for key a with another source, params and event, the
\* listed metadata describes the first registration and the handler the second
C20_Witness ==
    /\ HasOwn(registeredSources, "a")
    /\ registeredSources["a"].params = "p1"
    /\ registeredSources["a"].clientId = "int1"
    /\ registeredSources["a"].events = <<"e1", "e2">>
    /\ attachLog.sourceFirst["a"].source = SourceQuiet
    /\ registeredHttpSourceHandlers["a"] = SourceLoud
    /\ registeredJobs["a"].run.source = SourceLoud

-----------------------------------------------------------------------------
(* Claim C21 (checked under SpecAttach) *)

\* the job registry holds under id a job made by attachSource or attachDynamicTrigger
HasRegistrationJob(id) ==
    /\ HasOwn(registeredJobs, id)
    /\ registeredJobs[id].internal
    /\ registeredJobs[id].run.kind = "register"

\* every metadata entry is stored under its own key, and every registered
\* dynamic trigger d has its registration job register-dynamic-trigger-d
KeysAndTriggersConsistent ==
    /\ \A k \in DOMAIN registeredSources : registeredSources[k].key = k
    /\ \A d \in DOMAIN registeredDynamicTriggers :
          HasRegistrationJob("register-dynamic-trigger-" \o d)

\* C21: after any sequence of attach* calls the source-metadata registry and
\* the HTTP-handler registry have the same keys, each such key has a
\* registration job under the same id in the job registry, every metadata
\* entry's key field is the key it is stored under, and every registered
\* dynamic trigger d has a registration job under register-dynamic-trigger-d.
C21_RegistriesConsistent ==
    /\ DOMAIN registeredSources = DOMAIN registeredHttpSourceHandlers
    /\ \A k \in DOMAIN registeredHttpSourceHandlers : HasRegistrationJob(k)
    /\ KeysAndTriggersConsistent

\* what holds of the code: the two registries agree on the keys that are not
\* members of Object.prototype, each key with metadata has some job under its
\* id (the registration job unless attach stored another job of that id), and
\* the entries' key fields and the dynamic triggers' registration jobs are as
\* claimed (supporting lemma)
C21_HoldsForPlainKeys ==
    /\ DOMAIN registeredSources = DOMAIN registeredHttpSourceHandlers \ ObjectPrototypeKeys
    /\ \A k \in DOMAIN registeredSources :
          \/ HasRegistrationJob(k)
          \/ HasOwn(registeredJobs, k) /\ ~registeredJobs[k].internal
    /\ KeysAndTriggersConsistent

====
